---- MODULE Spec2Model ----
(***************************************************************************)
(* A model of analysis.py: the batch script that loads a CSV of AI hiring  *)
(* rates by country, cleans the percentage cells, groups the rows by       *)
(* calendar period, computes the per-country means and percentage change,  *)
(* runs a t-test, saves four charts and prints a report.                   *)
(*                                                                         *)
(* Values.  Every cell of a table is a record [k, v]:                      *)
(*   "str"  v = the characters of a string                                 *)
(*   "num"  v = <<n, d>>, the float n/d in lowest terms (d > 0)            *)
(*   "nan"  the float NaN, "inf" v = <<1>> or <<-1>> the floats +-inf      *)
(*   "ts"   v = <<year, month, day>> a Timestamp, "nat" the missing NaT    *)
(*   "int"  v = <<n>> an integer (the derived Year)                        *)
(* Floats are exact rationals: rounding is not modelled.                   *)
(***************************************************************************)
EXTENDS Integers, Sequences, FiniteSets, TLC

----------------------------------------------------------------------------
(* Bounds of the inputs *)

MaxCols == 3
MaxRows == 2
MaxLen == 3
WideExtra == 2

----------------------------------------------------------------------------
(* Values *)

NaN == [k |-> "nan", v |-> <<>>]
PInf == [k |-> "inf", v |-> <<1>>]
NInf == [k |-> "inf", v |-> <<-1>>]
NaT == [k |-> "nat", v |-> <<>>]
Str(s) == [k |-> "str", v |-> s]
Timestamp(y, m, d) == [k |-> "ts", v |-> <<y, m, d>>]
IntVal(n) == [k |-> "int", v |-> <<n>>]

Abs(n) == IF n < 0 THEN -n ELSE n

RECURSIVE Gcd(_, _)
Gcd(a, b) == IF b = 0 THEN a ELSE Gcd(b, a % b)

\* the float n/d, d # 0, in lowest terms
Num(n, d) ==
    LET g == Gcd(Abs(n), Abs(d))
        s == IF d < 0 THEN -1 ELSE 1
    IN  [k |-> "num", v |-> <<(s * n) \div g, (s * d) \div g>>]

IsFloat(x) == x.k \in {"num", "nan", "inf"}
IsNaN(x) == x.k = "nan"
IsNum(x) == x.k = "num"

\* IEEE arithmetic on the floats of the model
FSub(a, b) ==
    IF IsNaN(a) \/ IsNaN(b) THEN NaN
    ELSE IF a.k = "inf" /\ b.k = "inf" THEN (IF a = b THEN NaN ELSE a)
    ELSE IF a.k = "inf" THEN a
    ELSE IF b.k = "inf" THEN (IF b = PInf THEN NInf ELSE PInf)
    ELSE Num(a.v[1] * b.v[2] - b.v[1] * a.v[2], a.v[2] * b.v[2])

FAdd(a, b) ==
    IF IsNaN(a) \/ IsNaN(b) THEN NaN
    ELSE IF a.k = "inf" /\ b.k = "inf" THEN (IF a = b THEN a ELSE NaN)
    ELSE IF a.k = "inf" THEN a
    ELSE IF b.k = "inf" THEN b
    ELSE Num(a.v[1] * b.v[2] + b.v[1] * a.v[2], a.v[2] * b.v[2])

Sign(x) == IF x.v[1] > 0 THEN 1 ELSE IF x.v[1] < 0 THEN -1 ELSE 0
Signed(s) == IF s > 0 THEN PInf ELSE NInf

\* a / b of numpy float64: x/0 is +-inf, 0/0 is NaN, no exception
FDiv(a, b) ==
    IF IsNaN(a) \/ IsNaN(b) THEN NaN
    ELSE IF a.k = "inf" /\ b.k = "inf" THEN NaN
    ELSE IF a.k = "inf" THEN (IF Sign(b) < 0 THEN Signed(-Sign(a)) ELSE a)
    ELSE IF b.k = "inf" THEN Num(0, 1)
    ELSE IF b.v[1] = 0 THEN (IF a.v[1] = 0 THEN NaN ELSE Signed(Sign(a)))
    ELSE Num(a.v[1] * b.v[2], a.v[2] * b.v[1])

FMul(a, b) ==
    IF IsNaN(a) \/ IsNaN(b) THEN NaN
    ELSE IF a.k = "inf" \/ b.k = "inf"
         THEN (IF Sign(a) * Sign(b) = 0 THEN NaN ELSE Signed(Sign(a) * Sign(b)))
    ELSE Num(a.v[1] * b.v[1], a.v[2] * b.v[2])

\* a < b on floats; every comparison with NaN is false
FLess(a, b) ==
    IF IsNaN(a) \/ IsNaN(b) THEN FALSE
    ELSE IF a.k = "inf" THEN a = NInf /\ b # NInf
    ELSE IF b.k = "inf" THEN b = PInf
    ELSE a.v[1] * b.v[2] < b.v[1] * a.v[2]

FLeq(a, b) == ~IsNaN(a) /\ ~IsNaN(b) /\ ~FLess(b, a)

----------------------------------------------------------------------------
(* Strings are sequences of one-character strings *)

Digits == <<"0", "1", "2", "3", "4", "5", "6", "7", "8", "9">>
IsDigit(c) == \E i \in 1..Len(Digits) : Digits[i] = c
DigitVal(c) == (CHOOSE i \in 1..Len(Digits) : Digits[i] = c) - 1
AllDigits(s) == \A i \in 1..Len(s) : IsDigit(s[i])

RECURSIVE DecVal(_)
DecVal(s) ==
    IF s = <<>> THEN 0
    ELSE 10 * DecVal(SubSeq(s, 1, Len(s) - 1)) + DigitVal(s[Len(s)])

RECURSIVE Pow10(_)
Pow10(n) == IF n = 0 THEN 1 ELSE 10 * Pow10(n - 1)

Contains(s, c) == \E i \in 1..Len(s) : s[i] = c

\* str.replace(c, '')
Replace(s, c) == SelectSeq(s, LAMBDA x : x # c)

\* float(str): digits with at most one '.', at least one digit, an optional
\* sign in front.  Anything else raises ValueError.
Unsigned(s) == IF s # <<>> /\ s[1] \in {"-", "+"} THEN Tail(s) ELSE s
FloatOk(s) ==
    LET u == Unsigned(s)
        body == Replace(u, ".")
    IN  /\ body # <<>>
        /\ AllDigits(body)
        /\ Len(u) - Len(body) <= 1
FloatOf(s) ==
    LET u == Unsigned(s)
        body == Replace(u, ".")
        dot == IF Contains(u, ".") THEN CHOOSE i \in 1..Len(u) : u[i] = "." ELSE Len(u) + 1
        neg == s # <<>> /\ s[1] = "-"
        frac == IF dot > Len(u) THEN 0 ELSE Len(u) - dot
    IN  Num((IF neg THEN -1 ELSE 1) * DecVal(body), Pow10(frac))

\* clean_percentage without the value.replace('%', '')
CleanNoStrip(value) ==
    IF value.k = "str" THEN (IF FloatOk(value.v) THEN FloatOf(value.v) ELSE NaN)
    ELSE IF IsFloat(value) THEN value
    ELSE NaN

\* clean_percentage(value)
CleanPercentage(value) ==
    IF value.k = "str" /\ Contains(value.v, "%")
    THEN (IF FloatOk(Replace(value.v, "%")) THEN FloatOf(Replace(value.v, "%")) ELSE NaN)
    ELSE IF value.k = "str"
    THEN (IF FloatOk(value.v) THEN FloatOf(value.v) ELSE NaN)
    ELSE IF IsFloat(value) THEN value
    ELSE IF value.k = "int" THEN Num(value.v[1], 1)
    ELSE NaN

----------------------------------------------------------------------------
(* pd.to_datetime(..., format='%m/%d/%y') *)

RECURSIVE SplitAt(_, _)
\* str.split(c)
SplitAt(s, c) ==
    IF ~Contains(s, c) THEN <<s>>
    ELSE LET i == CHOOSE j \in 1..Len(s) : s[j] = c /\ \A h \in 1..(j - 1) : s[h] # c
         IN  <<SubSeq(s, 1, i - 1)>> \o SplitAt(SubSeq(s, i + 1, Len(s)), c)

\* %y: 69..99 are 1969..1999, 00..68 are 2000..2068
CenturyPivot == 69
YearOf(yy) == IF yy < CenturyPivot THEN 2000 + yy ELSE 1900 + yy

IsLeap(y) == (y % 4 = 0 /\ y % 100 # 0) \/ y % 400 = 0
DaysInMonth(y, m) ==
    IF m = 2 THEN (IF IsLeap(y) THEN 29 ELSE 28)
    ELSE IF m \in {4, 6, 9, 11} THEN 30 ELSE 31

\* %m and %d take one or two digits, %y exactly two; the whole string must match
DateOk(s) ==
    LET f == SplitAt(s, "/")
    IN  /\ Len(f) = 3
        /\ \A i \in 1..3 : f[i] # <<>> /\ AllDigits(f[i])
        /\ Len(f[1]) <= 2 /\ Len(f[2]) <= 2 /\ Len(f[3]) = 2
        /\ DecVal(f[1]) \in 1..12
        /\ DecVal(f[2]) \in 1..DaysInMonth(YearOf(DecVal(f[3])), DecVal(f[1]))

\* a missing value (NaN) becomes NaT; a string that does not match raises
ToDatetimeOk(value) == IsNaN(value) \/ (value.k = "str" /\ DateOk(value.v))
ToDatetime(value) ==
    IF IsNaN(value) THEN NaT
    ELSE LET f == SplitAt(value.v, "/")
         IN  Timestamp(YearOf(DecVal(f[3])), DecVal(f[1]), DecVal(f[2]))

\* Series.dt.year: NaN for NaT
DtYear(value) == IF value.k = "ts" THEN IntVal(value.v[1]) ELSE NaN

\* the first period reaching into 2020
PreYearsWide == {2018, 2019, 2020}
PreYears == {2018, 2019}
DuringYears == {2020, 2021, 2022}
PostYears == {2023}

\* Series.isin(years)
IsIn(value, years) == value.k = "int" /\ value.v[1] \in years

----------------------------------------------------------------------------
(* Tables.  A DataFrame is [columns: the column names in order,           *)
(* rows: a sequence of functions from column name to value].              *)

None == [columns |-> <<"None">>, rows |-> <<>>]
NoMetrics ==
    [set |-> FALSE, most_impacted_country |-> "", most_impacted_value |-> NaN,
     least_impacted_country |-> "", least_impacted_value |-> NaN, t_test |-> FALSE]

Range(s) == {s[i] : i \in 1..Len(s)}

\* pd.read_csv: an empty cell is NaN; a column whose cells are all numbers is
\* numeric, any other column keeps its strings; a blank line (the empty cell
\* of a one-column file) is skipped
ColumnIsNumeric(f, c) ==
    \A i \in 1..Len(f.rows) : f.rows[i][c] = <<>> \/ FloatOk(f.rows[i][c])
ReadCell(f, i, c) ==
    IF f.rows[i][c] = <<>> THEN NaN
    ELSE IF ColumnIsNumeric(f, c) THEN FloatOf(f.rows[i][c])
    ELSE Str(f.rows[i][c])
ReadCsv(f) ==
    LET all == [i \in 1..Len(f.rows) |-> [c \in Range(f.columns) |-> ReadCell(f, i, c)]]
        blank(r) == Len(f.columns) = 1 /\ IsNaN(r[f.columns[1]])
    IN  [columns |-> f.columns, rows |-> SelectSeq(all, LAMBDA r : ~blank(r))]

\* lines 29-31: every column except 'Date' goes through clean_percentage
ConvertPercentages(d) ==
    [d EXCEPT !.rows = [i \in 1..Len(d.rows) |->
        [c \in Range(d.columns) |->
            IF c # "Date" THEN CleanPercentage(d.rows[i][c]) ELSE d.rows[i][c]]]]

\* line 36
DatesOk(d) == \A i \in 1..Len(d.rows) : ToDatetimeOk(d.rows[i]["Date"])
ConvertDates(d) ==
    [d EXCEPT !.rows = [i \in 1..Len(d.rows) |->
        [d.rows[i] EXCEPT !["Date"] = ToDatetime(@)]]]

\* line 39: df['Year'] = ... replaces a column of that name in place, or
\* appends the column at the end
AddYear(d) ==
    [columns |-> IF "Year" \in Range(d.columns) THEN d.columns
                 ELSE Append(d.columns, "Year"),
     rows |-> [i \in 1..Len(d.rows) |->
        [c \in Range(d.columns) \cup {"Year"} |->
            IF c = "Year" THEN DtYear(d.rows[i]["Date"]) ELSE d.rows[i][c]]]]

\* df[df['Year'].isin(years)]
RowsOfYears(d, years) == SelectSeq(d.rows, LAMBDA r : IsIn(r["Year"], years))

\* line 54
Countries(d) == SelectSeq(d.columns, LAMBDA c : c \notin {"Date", "Year"})

RECURSIVE FSum(_)
FSum(s) == IF s = <<>> THEN Num(0, 1) ELSE FAdd(s[1], FSum(Tail(s)))

\* a mean that does not skip NaN
MeanWithNaN(rows, c) ==
    LET vals == [i \in 1..Len(rows) |-> rows[i][c]]
    IN  IF vals = <<>> THEN NaN ELSE FDiv(FSum(vals), Num(Len(vals), 1))

\* Series.mean(): NaN is skipped, the mean of nothing is NaN
Mean(rows, c) ==
    LET vals == SelectSeq([i \in 1..Len(rows) |-> rows[i][c]], LAMBDA x : ~IsNaN(x))
    IN  IF vals = <<>> THEN NaN ELSE FDiv(FSum(vals), Num(Len(vals), 1))

Hundred == 100

\* line 63
PctChange(pre_mean, during_mean) ==
    FMul(FDiv(FSub(during_mean, pre_mean), pre_mean), Num(Hundred, 1))

\* lines 57-73: one row of results_df per country
CountryRow(country, pre, during, post) ==
    LET pre_mean == Mean(pre, country)
        during_mean == Mean(during, country)
    IN  [country |-> country,
         pre_covid_mean |-> pre_mean,
         during_covid_mean |-> during_mean,
         post_covid_mean |-> Mean(post, country),
         pct_change_during_covid |-> PctChange(pre_mean, during_mean)]

ResultsOf(d, pre, during, post) ==
    LET cs == Countries(d)
    IN  [columns |-> <<"results">>,
         rows |-> [i \in 1..Len(cs) |-> CountryRow(cs[i], pre, during, post)]]

Pct(t, i) == t.rows[i].pct_change_during_covid
AllNaN(t) == \A i \in 1..Len(t.rows) : IsNaN(Pct(t, i))

\* an idxmin that names the first row with a value
IdxMinFirst(t) ==
    t.rows[CHOOSE j \in 1..Len(t.rows) :
                ~IsNaN(Pct(t, j)) /\ \A h \in 1..(j - 1) : IsNaN(Pct(t, h))].country

\* Series.idxmin() / idxmax(): the first row holding the least / greatest
\* value, NaN skipped
IdxMin(t) ==
    LET i == CHOOSE j \in 1..Len(t.rows) :
                /\ ~IsNaN(Pct(t, j))
                /\ \A h \in 1..Len(t.rows) : ~FLess(Pct(t, h), Pct(t, j))
                /\ \A h \in 1..(j - 1) : IsNaN(Pct(t, h)) \/ FLess(Pct(t, j), Pct(t, h))
    IN  t.rows[i].country
IdxMax(t) ==
    LET i == CHOOSE j \in 1..Len(t.rows) :
                /\ ~IsNaN(Pct(t, j))
                /\ \A h \in 1..Len(t.rows) : ~FLess(Pct(t, j), Pct(t, h))
                /\ \A h \in 1..(j - 1) : IsNaN(Pct(t, h)) \/ FLess(Pct(t, h), Pct(t, j))
    IN  t.rows[i].country
\* Series.min() / max(): NaN skipped, NaN when nothing is left
PctOf(t, country) ==
    LET i == CHOOSE j \in 1..Len(t.rows) : t.rows[j].country = country IN Pct(t, i)
MinPct(t) == IF AllNaN(t) THEN NaN ELSE PctOf(t, IdxMin(t))
MaxPct(t) == IF AllNaN(t) THEN NaN ELSE PctOf(t, IdxMax(t))

NaNLabel == "nan"

\* lines 77-85 (the mean, median and standard deviation of the changes are
\* further reductions of the same column; they raise nothing and no later
\* step reads them)
GlobalMetrics(t) ==
    [set |-> TRUE,
     most_impacted_country |-> IF AllNaN(t) THEN NaNLabel ELSE IdxMin(t),
     most_impacted_value |-> MinPct(t),
     least_impacted_country |-> IF AllNaN(t) THEN NaNLabel ELSE IdxMax(t),
     least_impacted_value |-> MaxPct(t),
     t_test |-> FALSE]

\* df[...].iloc[:, 1:-1].values.flatten(): the columns from the second to the
\* one before the last, row by row
RECURSIVE Flatten(_, _)
Flatten(rows, cols) ==
    IF rows = <<>> THEN <<>>
    ELSE [i \in 1..Len(cols) |-> rows[1][cols[i]]] \o Flatten(Tail(rows), cols)
ILocInner(columns) == SubSeq(columns, 2, Len(columns) - 1)
TTestSample(d, years) == Flatten(RowsOfYears(d, years), ILocInner(d.columns))

\* stats.ttest_ind adds up its samples: a Timestamp among the values raises
\* TypeError
HasKind(s, k) == \E i \in 1..Len(s) : s[i].k = k

\* DataFrame.sort_values('pct_change_during_covid'): ascending, NaN last in
\* their original order.  The default sort kind is quicksort, which is not
\* stable: rows of equal value come in their original order on one build and
\* in another order on another (the reversed order stands for these).
Before(t, stable, i, j) ==
    IF IsNaN(Pct(t, i)) \/ IsNaN(Pct(t, j))
    THEN (~IsNaN(Pct(t, i)) /\ IsNaN(Pct(t, j))) \/ (IsNaN(Pct(t, i)) /\ IsNaN(Pct(t, j)) /\ i < j)
    ELSE \/ FLess(Pct(t, i), Pct(t, j))
         \/ Pct(t, i) = Pct(t, j) /\ (IF stable THEN i < j ELSE j < i)
\* a chart drawn from the table as it is, not sorted
SortValuesUnsorted(t, stable) == t
Rank(t, stable, i) == 1 + Cardinality({j \in 1..Len(t.rows) : Before(t, stable, j, i)})
SortValues(t, stable) ==
    [t EXCEPT !.rows = [k \in 1..Len(t.rows) |->
        t.rows[CHOOSE i \in 1..Len(t.rows) : Rank(t, stable, i) = k]]]

\* sort_values(..., ascending=False): descending, NaN last
BeforeDesc(t, stable, i, j) ==
    IF IsNaN(Pct(t, i)) \/ IsNaN(Pct(t, j))
    THEN (~IsNaN(Pct(t, i)) /\ IsNaN(Pct(t, j))) \/ (IsNaN(Pct(t, i)) /\ IsNaN(Pct(t, j)) /\ i < j)
    ELSE \/ FLess(Pct(t, j), Pct(t, i))
         \/ Pct(t, i) = Pct(t, j) /\ (IF stable THEN i < j ELSE j < i)
RankDesc(t, stable, i) == 1 + Cardinality({j \in 1..Len(t.rows) : BeforeDesc(t, stable, j, i)})
SortValuesDesc(t, stable) ==
    [t EXCEPT !.rows = [k \in 1..Len(t.rows) |->
        t.rows[CHOOSE i \in 1..Len(t.rows) : RankDesc(t, stable, i) = k]]]

Min(a, b) == IF a < b THEN a ELSE b
HeadDefault == 5
WorstCount == 10
\* DataFrame.head(n)
HeadRows(t, n) == SubSeq(t.rows, 1, Min(n, Len(t.rows)))
Index(rows) == [i \in 1..Len(rows) |-> rows[i].country]

----------------------------------------------------------------------------
(* The inputs: the file at file_path, and the build's sort *)

ColumnNames == {"Date", "Year", "A", "B"}
WideCountries == <<"A", "B", "C", "D", "E", "F", "G", "H", "I", "J", "K">>

\* cells of the Date column: the last day before the pandemic, a day during
\* it, a day after it, a month that does not exist
PreDate == <<"1", "2", "/", "3", "1", "/", "1", "9">>
DuringDate == <<"1", "/", "1", "/", "2", "0">>
PostDate == <<"6", "/", "1", "5", "/", "2", "3">>
BadDate == <<"1", "3", "/", "1", "/", "2", "0">>
DateStrings == {PreDate, DuringDate, PostDate, BadDate}
\* the years around every period's edge, the century pivot of %y, a day that
\* does not exist, a four-digit year and the empty cell
EdgeDates ==
    { <<"1", "2", "/", "3", "1", "/", "1", "7">>,
      <<"1", "/", "1", "/", "1", "8">>,
      <<"1", "2", "/", "3", "1", "/", "1", "9">>,
      <<"1", "/", "1", "/", "2", "0">>,
      <<"6", "/", "1", "5", "/", "2", "1">>,
      <<"1", "2", "/", "3", "1", "/", "2", "2">>,
      <<"1", "/", "1", "/", "2", "3">>,
      <<"1", "/", "1", "/", "2", "4">>,
      <<"1", "/", "1", "/", "6", "9">>,
      <<"2", "/", "2", "9", "/", "1", "9">>,
      <<"1", "/", "1", "/", "2", "0", "2", "0">>,
      <<>> }
\* cells of the other columns
Zero == <<"0">>
TwoPercent == <<"2", "%">>
Text == <<"x">>
CellStrings == {Zero, TwoPercent, Text}
Chars == {"2", "%", "x", ".", "-"}
Strings(n) == UNION {[1..m -> Chars] : m \in 0..n}

Injective(s) == \A i, j \in 1..Len(s) : s[i] = s[j] => i = j
Layouts == {l \in UNION {[1..n -> ColumnNames] : n \in 1..MaxCols} : Injective(l)}

\* the rows over a layout: a date, a cell for every country; a column named
\* 'Year' in the file holds the same cell in every row
RowsOver(l, dates, cells) ==
    {[c \in Range(l) |-> IF c = "Date" THEN x.d ELSE IF c = "Year" THEN TwoPercent ELSE x.o[c]] :
        x \in [d : dates, o : [Range(l) \ {"Date", "Year"} -> cells]]}
TablesOver(l, n, dates, cells) == UNION {[1..m -> RowsOver(l, dates, cells)] : m \in 0..n}

File(l, rows) == [exists |-> TRUE, readable |-> TRUE, columns |-> l, rows |-> rows]
Missing == [exists |-> FALSE, readable |-> FALSE, columns |-> <<>>, rows |-> <<>>]
Unreadable == [exists |-> TRUE, readable |-> FALSE, columns |-> <<>>, rows |-> <<>>]

\* every layout of up to MaxCols columns, with one row before and one row
\* during the pandemic
LayoutFiles ==
    UNION {{File(l, <<pre, during>>) :
                pre \in RowsOver(l, {PreDate}, {Zero, TwoPercent}),
                during \in RowsOver(l, {DuringDate}, CellStrings)} : l \in Layouts}

\* one country, every table of up to MaxRows rows
SeriesFiles ==
    {File(<<"Date", "A">>, rows) :
        rows \in TablesOver(<<"Date", "A">>, MaxRows, DateStrings, CellStrings)}
DateFiles ==
    {File(<<"Date", "A">>, rows) :
        rows \in TablesOver(<<"Date", "A">>, MaxRows, EdgeDates, {TwoPercent})}

\* one cell holding any string of up to MaxLen characters
CleanFiles ==
    {File(l, <<[c \in Range(l) |-> IF c = "Date" THEN PreDate ELSE s]>>) :
        l \in {<<"Date", "A">>}, s \in Strings(MaxLen)}

\* more countries than the lists of the report hold: every country at 2%
\* before, and during too except for up to WideExtra countries
WideLayout(n) == <<"Date">> \o SubSeq(WideCountries, 1, n)
WideRow(n, date, odd) ==
    [c \in Range(WideLayout(n)) |->
        IF c = "Date" THEN date ELSE IF c \in DOMAIN odd THEN odd[c] ELSE TwoPercent]
WideFiles ==
    UNION {{File(WideLayout(n), <<WideRow(n, PreDate, <<>>), WideRow(n, DuringDate, odd)>>) :
                odd \in UNION {[cs -> {Zero, Text}] :
                            cs \in {x \in SUBSET Range(SubSeq(WideCountries, 1, n)) :
                                        Cardinality(x) <= WideExtra}}} :
           n \in {WorstCount + 1}}

\* with one country no two rows of the results are equal and the sort of
\* the build cannot show
OneCountryFiles == {Missing, Unreadable} \cup SeriesFiles \cup DateFiles \cup CleanFiles
ManyCountryFiles == LayoutFiles \cup WideFiles

----------------------------------------------------------------------------
(* The state *)

VARIABLES
    file,            \* the CSV at file_path
    stable,          \* whether this build's quicksort keeps equal rows in order
    pc,              \* the statement the script is at
    df,              \* analyze_covid_impact: the table
    periods,         \* pre_covid, during_covid, post_covid
    results_df,      \* analyze_covid_impact: the results table
    global_metrics,  \* analyze_covid_impact: the metrics dictionary
    samples,         \* the two arrays handed to stats.ttest_ind
    ret,             \* what analyze_covid_impact returned to the main block
    fig,             \* create_visualizations: the chart being made, 1..4
    open,            \* matplotlib: the number of open figures
    saved,           \* the files written by savefig, in order
    charts,          \* results_sorted and worst_10 of create_visualizations
    stdout,          \* the printed lines
    trace            \* the statements executed so far

vars == <<file, stable, pc, df, periods, results_df, global_metrics, samples,
          ret, fig, open, saved, charts, stdout, trace>>

NoPeriods == [pre |-> <<>>, during |-> <<>>, post |-> <<>>]
NoSamples == [set |-> FALSE, pre |-> <<>>, during |-> <<>>]
NoReturn == [set |-> FALSE, results_df |-> None, global_metrics |-> NoMetrics]
NoCharts == [results_sorted |-> None, worst_10 |-> <<>>]

Line(msg) == [msg |-> msg, data |-> <<>>]
Listing(msg, data) == [msg |-> msg, data |-> data]

Start(files, builds) ==
    /\ file \in files
    /\ stable \in builds
    /\ pc = "main"
    /\ df = None
    /\ periods = NoPeriods
    /\ results_df = None
    /\ global_metrics = NoMetrics
    /\ samples = NoSamples
    /\ ret = NoReturn
    /\ fig = 0
    /\ open = 0
    /\ saved = <<>>
    /\ charts = NoCharts
    /\ stdout = <<>>
    /\ trace = <<>>

Init == Start(OneCountryFiles, {TRUE}) \/ Start(ManyCountryFiles, BOOLEAN)

\* one statement done: where the script goes and what it printed
Step(name, next, lines) ==
    /\ pc' = next
    /\ trace' = Append(trace, name)
    /\ stdout' = stdout \o lines

inputs == <<file, stable>>
locals == <<df, periods, results_df, global_metrics, samples>>
plots == <<fig, open, saved, charts>>

----------------------------------------------------------------------------
(* __main__, lines 214-226 *)

MainStart ==
    /\ pc = "main"
    /\ Step("main", "exists", <<Line("Starting analysis...")>>)
    /\ UNCHANGED <<inputs, locals, ret, plots>>

----------------------------------------------------------------------------
(* analyze_covid_impact, lines 17-100 *)

\* an exception the try block does not catch
RaiseEscapes(name) == Step(name, "crashed", <<>>)
Raise(name) == Step(name, "except", <<>>)

\* lines 20-24
CheckExists ==
    /\ pc = "exists"
    /\ IF file.exists
       THEN Step("exists", "read_csv", <<Line("Reading data from")>>)
       ELSE Raise("exists")
    /\ UNCHANGED <<inputs, locals, ret, plots>>

\* lines 25-28
ReadCsvStep ==
    /\ pc = "read_csv"
    /\ IF file.readable
       THEN /\ df' = ReadCsv(file)
            /\ Step("read_csv", "clean", <<Line("Converting percentage values...")>>)
       ELSE /\ df' = df
            /\ Raise("read_csv")
    /\ UNCHANGED <<inputs, periods, results_df, global_metrics, samples, ret, plots>>

\* lines 29-34
Clean ==
    /\ pc = "clean"
    /\ df' = ConvertPercentages(df)
    /\ Step("clean", "to_datetime", <<Line("Preprocessing data...")>>)
    /\ UNCHANGED <<inputs, periods, results_df, global_metrics, samples, ret, plots>>

\* line 36: KeyError without a 'Date' column, ValueError on a cell that does
\* not match the format
ToDatetimeStep ==
    /\ pc = "to_datetime"
    /\ IF "Date" \in Range(df.columns) /\ DatesOk(df)
       THEN /\ df' = ConvertDates(df)
            /\ Step("to_datetime", "year", <<>>)
       ELSE /\ df' = df
            /\ Raise("to_datetime")
    /\ UNCHANGED <<inputs, periods, results_df, global_metrics, samples, ret, plots>>

\* lines 39-42
YearStep ==
    /\ pc = "year"
    /\ df' = AddYear(df)
    /\ Step("year", "periods", <<Line("Calculating statistics for different periods...")>>)
    /\ UNCHANGED <<inputs, periods, results_df, global_metrics, samples, ret, plots>>

\* lines 44-48
Periods ==
    /\ pc = "periods"
    /\ periods' = [pre |-> RowsOfYears(df, PreYears),
                   during |-> RowsOfYears(df, DuringYears),
                   post |-> RowsOfYears(df, PostYears)]
    /\ Step("periods", "countries", <<>>)
    /\ UNCHANGED <<inputs, df, results_df, global_metrics, samples, ret, plots>>

\* lines 51-76
Analyze ==
    /\ pc = "countries"
    /\ results_df' = ResultsOf(df, periods.pre, periods.during, periods.post)
    /\ Step("countries", "metrics",
            <<Line("Analyzing country-specific impacts..."), Line("Calculating global metrics...")>>)
    /\ UNCHANGED <<inputs, df, periods, global_metrics, samples, ret, plots>>

\* lines 77-85: a results table without rows has no column to read (KeyError);
\* when every change is NaN, idxmin raises ValueError on one pandas and
\* returns NaN on another
Metrics ==
    /\ pc = "metrics"
    /\ \E raises \in IF results_df.rows = <<>> THEN {TRUE}
                     ELSE IF AllNaN(results_df) THEN BOOLEAN ELSE {FALSE} :
          IF raises
          THEN /\ global_metrics' = global_metrics
               /\ Raise("metrics")
          ELSE /\ global_metrics' = GlobalMetrics(results_df)
               /\ Step("metrics", "ttest", <<>>)
    /\ UNCHANGED <<inputs, df, periods, results_df, samples, ret, plots>>

\* lines 88-94: the sum of NaT values is left open
TTest ==
    /\ pc = "ttest"
    /\ LET a == TTestSample(df, PreYears)
           b == TTestSample(df, DuringYears)
       IN  /\ samples' = [set |-> TRUE, pre |-> a, during |-> b]
           /\ \E raises \in IF HasKind(a \o b, "ts") THEN {TRUE}
                            ELSE IF HasKind(a \o b, "nat") THEN BOOLEAN ELSE {FALSE} :
                 IF raises
                 THEN /\ global_metrics' = global_metrics
                      /\ Raise("ttest")
                 ELSE /\ global_metrics' = [global_metrics EXCEPT !.t_test = TRUE]
                      /\ Step("ttest", "return", <<>>)
    /\ UNCHANGED <<inputs, df, periods, results_df, ret, plots>>

\* line 96
Return ==
    /\ pc = "return"
    /\ ret' = [set |-> TRUE, results_df |-> results_df, global_metrics |-> global_metrics]
    /\ Step("return", "viz", <<>>)
    /\ UNCHANGED <<inputs, locals, plots>>

\* lines 98-100
Except ==
    /\ pc = "except"
    /\ ret' = [set |-> TRUE, results_df |-> None, global_metrics |-> NoMetrics]
    /\ Step("except", "viz", <<Line("An error occurred")>>)
    /\ UNCHANGED <<inputs, locals, plots>>

----------------------------------------------------------------------------
(* __main__, lines 222-223 *)

\* a main block that prints the report and skips the charts
MainPrintFirst ==
    /\ pc = "viz"
    /\ fig' = fig
    /\ Step("viz", "print", <<>>)
    /\ UNCHANGED <<inputs, locals, ret, open, saved, charts>>

MainVisualize ==
    /\ pc = "viz"
    /\ fig' = 1
    /\ Step("viz", "figure", <<Line("Generating visualizations...")>>)
    /\ UNCHANGED <<inputs, locals, ret, open, saved, charts>>

----------------------------------------------------------------------------
(* create_visualizations, lines 102-188 *)

FileNames ==
    <<"impact_by_country.png", "period_distribution.png",
      "top_10_impacted.png", "recovery_analysis.png">>

\* plt.figure(...), lines 110, 126, 141, 153
Figure ==
    /\ pc = "figure"
    /\ open' = open + 1
    /\ Step("figure", "plot", <<>>)
    /\ UNCHANGED <<inputs, locals, ret, fig, saved, charts>>

\* what is drawn between plt.figure and plt.savefig.  Line 111 reads
\* results_df.sort_values: on None that is an AttributeError nothing catches.
Plot ==
    /\ pc = "plot"
    /\ IF fig = 1 /\ ret.results_df = None
       THEN /\ charts' = charts
            /\ Step("plot", "crashed", <<Line("Traceback: AttributeError")>>)
       ELSE /\ charts' =
                 IF fig = 1
                 THEN [charts EXCEPT !.results_sorted = SortValues(ret.results_df, stable)]
                 ELSE IF fig = 3
                 THEN [charts EXCEPT !.worst_10 = HeadRows(charts.results_sorted, WorstCount)]
                 ELSE charts
            /\ Step("plot", "savefig", <<>>)
    /\ UNCHANGED <<inputs, locals, ret, fig, open, saved>>

\* plt.savefig(...), lines 122, 137, 149, 181
Savefig ==
    /\ pc = "savefig"
    /\ saved' = Append(saved, FileNames[fig])
    /\ Step("savefig", "close", <<>>)
    /\ UNCHANGED <<inputs, locals, ret, fig, open, charts>>

\* a figure that is saved and never closed
CloseForgotten ==
    /\ pc = "close"
    /\ open' = open
    /\ fig' = IF fig < Len(FileNames) THEN fig + 1 ELSE fig
    /\ Step("close", IF fig < Len(FileNames) THEN "figure" ELSE "confirm", <<>>)
    /\ UNCHANGED <<inputs, locals, ret, saved, charts>>

\* plt.close(), lines 123, 138, 150, 182
Close ==
    /\ pc = "close"
    /\ open' = open - 1
    /\ fig' = IF fig < Len(FileNames) THEN fig + 1 ELSE fig
    /\ Step("close", IF fig < Len(FileNames) THEN "figure" ELSE "confirm", <<>>)
    /\ UNCHANGED <<inputs, locals, ret, saved, charts>>

\* lines 184-188
Confirm ==
    /\ pc = "confirm"
    /\ Step("confirm", "print", <<Listing("Visualizations have been saved", FileNames)>>)
    /\ UNCHANGED <<inputs, locals, ret, plots>>

----------------------------------------------------------------------------
(* print_results, lines 191-212 *)

Report(t, m) ==
    << Line("=== Global Impact Summary ==="),
       Listing("Most impacted country", <<m.most_impacted_country>>),
       Listing("Least impacted country", <<m.least_impacted_country>>),
       Line("=== Statistical Significance ==="),
       Listing("=== Top 5 Most Negatively Impacted Countries ===",
               Index(HeadRows(SortValues(t, stable), HeadDefault))),
       Listing("=== Top 5 Least Impacted/Positive Growth Countries ===",
               Index(HeadRows(SortValuesDesc(t, stable), HeadDefault))) >>

PrintResults ==
    /\ pc = "print"
    /\ IF ret.results_df = None \/ ret.global_metrics = NoMetrics
       THEN Step("print", "done", <<>>)
       ELSE Step("print", "done", Report(ret.results_df, ret.global_metrics))
    /\ UNCHANGED <<inputs, locals, ret, plots>>

----------------------------------------------------------------------------

Next ==
    \/ MainStart
    \/ CheckExists
    \/ ReadCsvStep
    \/ Clean
    \/ ToDatetimeStep
    \/ YearStep
    \/ Periods
    \/ Analyze
    \/ Metrics
    \/ TTest
    \/ Return
    \/ Except
    \/ MainVisualize
    \/ Figure
    \/ Plot
    \/ Savefig
    \/ Close
    \/ Confirm
    \/ PrintResults

Spec == Init /\ [][Next]_vars

----------------------------------------------------------------------------
(* What the claims speak of *)

Executed(name) == name \in Range(trace)
Returned == ret.set
Succeeded == ret.set /\ ret.results_df # None
Failed == ret.set /\ ret.results_df = None
IsPrefix(s, u) == Len(s) <= Len(u) /\ s = SubSeq(u, 1, Len(s))
HasLine(msg) == \E i \in 1..Len(stdout) : stdout[i].msg = msg
Printed(msg) == stdout[CHOOSE i \in 1..Len(stdout) : stdout[i].msg = msg].data

\* the stage every statement belongs to; the calls and returns between the
\* functions belong to none
StageOrder == <<"load", "clean", "aggregate", "ttest", "plot", "print">>
StageOf(name) ==
    IF name \in {"exists", "read_csv"} THEN "load"
    ELSE IF name \in {"clean", "to_datetime", "year"} THEN "clean"
    ELSE IF name \in {"periods", "countries", "metrics"} THEN "aggregate"
    ELSE IF name = "ttest" THEN "ttest"
    ELSE IF name \in {"figure", "plot", "savefig", "close", "confirm"} THEN "plot"
    ELSE IF name = "print" THEN "print"
    ELSE "none"
\* the stages in the order they were entered: a stage appears again only if
\* it was left and entered again
RECURSIVE EnteredFrom(_, _)
EnteredFrom(i, last) ==
    IF i > Len(trace) THEN <<>>
    ELSE LET g == StageOf(trace[i])
         IN  IF g = "none" \/ g = last THEN EnteredFrom(i + 1, last)
             ELSE <<g>> \o EnteredFrom(i + 1, g)
Entered == EnteredFrom(1, "none")

\* C1: on a run in which analyze_covid_impact succeeds, the stages are entered
\* in the order load, clean, aggregate, t-test, plot, print, each exactly
\* once: what has run so far is a prefix of that order, and all of it at the end
C1_StagesInOrder ==
    /\ (~Executed("except") /\ pc # "except") => IsPrefix(Entered, StageOrder)
    /\ (Succeeded /\ pc = "done") => Entered = StageOrder
C1_Witness == Succeeded /\ pc = "done" /\ Len(ret.results_df.rows) = 2

\* the inputs the claim lists as failing
BadDateIn(f) ==
    /\ "Date" \in Range(f.columns)
    /\ \E i \in 1..Len(f.rows) : f.rows[i]["Date"] # <<>> /\ ~DateOk(f.rows[i]["Date"])

\* C2: analyze_covid_impact lets no exception escape: a failing step makes it
\* return (None, None), otherwise both the results table and the metrics are
\* there; never exactly one of the two is None
C2_NoEscape ==
    /\ pc = "crashed" => Returned
    /\ Returned =>
        /\ (ret.results_df = None) <=> (ret.global_metrics = NoMetrics)
        /\ Executed("except") <=> (ret.results_df = None)
        /\ ~Executed("except") => Executed("ttest") /\ ret.global_metrics.t_test
        /\ (pc = "viz" /\ (~file.exists \/ ~file.readable \/ BadDateIn(file))) =>
                ret.results_df = None
C2_Witness == Failed /\ BadDateIn(file) /\ pc = "viz"

\* the rows of df whose Date falls in the given years
RowsDated(years) ==
    SelectSeq(df.rows, LAMBDA r : r["Date"].k = "ts" /\ r["Date"].v[1] \in years)
InPeriod(r, p) == \E i \in 1..Len(p) : p[i] = r

\* C3: a row belongs to at most one period, by the year of its Date alone:
\* 2018-2019 before, 2020-2022 during, 2023 after; a row of another year is in
\* no period
C3_Periods ==
    pc = "countries" =>
        /\ periods.pre = RowsDated({2018, 2019})
        /\ periods.during = RowsDated({2020, 2021, 2022})
        /\ periods.post = RowsDated({2023})
        /\ \A i \in 1..Len(df.rows) :
            LET r == df.rows[i]
            IN  /\ ~(InPeriod(r, periods.pre) /\ InPeriod(r, periods.during))
                /\ ~(InPeriod(r, periods.pre) /\ InPeriod(r, periods.post))
                /\ ~(InPeriod(r, periods.during) /\ InPeriod(r, periods.post))
                /\ (r["Date"].k # "ts" \/ r["Date"].v[1] \notin 2018..2023) =>
                        /\ ~InPeriod(r, periods.pre)
                        /\ ~InPeriod(r, periods.during)
                        /\ ~InPeriod(r, periods.post)
C3_Witness ==
    /\ pc = "countries"
    /\ Len(df.rows) = 2
    /\ df.rows[1]["Date"] = Timestamp(2022, 12, 31)
    /\ df.rows[2]["Date"] = Timestamp(1969, 1, 1)
    /\ Len(periods.during) = 1

\* the non-NaN values a country has in the given rows
Values(rows, c) ==
    SelectSeq([i \in 1..Len(rows) |-> rows[i][c]], LAMBDA x : ~IsNaN(x))
\* m is the mean of the values: m times their number is their sum
IsMeanOf(m, vals) ==
    IF vals = <<>> THEN IsNaN(m)
    ELSE IsNum(m) /\ FMul(m, Num(Len(vals), 1)) = FSum(vals)
\* p is (during - pre) / pre * 100 in float arithmetic: p times pre is
\* (during - pre) times 100 when pre is a number other than 0
IsPctChange(p, pre, during) ==
    IF IsNaN(pre) \/ IsNaN(during) THEN IsNaN(p)
    ELSE IF pre.v[1] # 0
    THEN IsNum(p) /\ p.v[1] * pre.v[1] * during.v[2]
                        = 100 * p.v[2] * (during.v[1] * pre.v[2] - pre.v[1] * during.v[2])
    ELSE IF during.v[1] = 0 THEN IsNaN(p)
    ELSE p = (IF during.v[1] > 0 THEN PInf ELSE NInf)

RowIsRight(r) ==
    /\ IsMeanOf(r.pre_covid_mean, Values(RowsDated({2018, 2019}), r.country))
    /\ IsMeanOf(r.during_covid_mean, Values(RowsDated({2020, 2021, 2022}), r.country))
    /\ IsMeanOf(r.post_covid_mean, Values(RowsDated({2023}), r.country))
    /\ IsPctChange(r.pct_change_during_covid, r.pre_covid_mean, r.during_covid_mean)

\* C4 as claimed: when analyze_covid_impact returns a results table, it has one row for every input
\* column other than 'Date', holding the country's means over the three
\* periods and the change computed from them
C4_Claimed ==
    (Succeeded /\ pc = "viz") =>
        /\ Index(ret.results_df.rows) = SelectSeq(file.columns, LAMBDA c : c # "Date")
        /\ \A i \in 1..Len(ret.results_df.rows) : RowIsRight(ret.results_df.rows[i])

\* C4 as amended: when analyze_covid_impact returns a results table, it has one row for every input
\* column other than 'Date' and 'Year' (an input column named 'Year' is
\* overwritten by the derived one), in the order of the file; the row holds the
\* country's means over the rows of each period (NaN skipped, NaN when the
\* period has no value) and the change computed from the row's own means
C4_ResultRows ==
    (Succeeded /\ pc = "viz") =>
        /\ Index(ret.results_df.rows) =
                SelectSeq(file.columns, LAMBDA c : c \notin {"Date", "Year"})
        /\ \A i \in 1..Len(ret.results_df.rows) : RowIsRight(ret.results_df.rows[i])
C4_Witness ==
    /\ Succeeded
    /\ pc = "viz"
    /\ file.columns = <<"Date", "A">>
    /\ Len(periods.pre) = 2
    /\ ret.results_df.rows[1].pre_covid_mean = Num(1, 1)
C4_WitnessChange ==
    /\ Succeeded
    /\ pc = "viz"
    /\ "Year" \in Range(file.columns)
    /\ \E i \in 1..Len(ret.results_df.rows) :
            ret.results_df.rows[i].pct_change_during_covid = Num(-100, 1)

\* C5 as claimed: whatever the file, the script runs the analysis, the
\* visualization and the report and ends without an uncaught exception
C5_Claimed == pc # "crashed"

\* the value of a numeral read from the left: the digits before and after the
\* point, and the number of digits after it
RECURSIVE Horner(_, _, _, _)
Horner(s, acc, scale, seen) ==
    IF s = <<>> THEN Num(acc, scale)
    ELSE IF s[1] = "." THEN Horner(Tail(s), acc, scale, TRUE)
    ELSE Horner(Tail(s), 10 * acc + DigitVal(s[1]), IF seen THEN 10 * scale ELSE scale, seen)
IsNumeral(s) ==
    /\ \E i \in 1..Len(s) : IsDigit(s[i])
    /\ \A i \in 1..Len(s) : IsDigit(s[i]) \/ s[i] = "." \/ (i = 1 /\ s[i] = "-")
    /\ Cardinality({i \in 1..Len(s) : s[i] = "."}) <= 1
NumeralValue(s) ==
    IF s[1] = "-" THEN FSub(Num(0, 1), Horner(Tail(s), 0, 1, FALSE))
    ELSE Horner(s, 0, 1, FALSE)
WithoutPercent(s) == SelectSeq(s, LAMBDA c : c # "%")
\* what the claim says clean_percentage returns
Cleaned(value) ==
    IF value.k = "str"
    THEN (IF IsNumeral(WithoutPercent(value.v))
          THEN NumeralValue(WithoutPercent(value.v)) ELSE NaN)
    ELSE value

\* C6: clean_percentage is total: a string holding '%' gives the number left
\* after every '%' is removed, any other numeral or number gives that number,
\* everything else gives NaN; the cleaning step applies it to every cell of
\* every column except 'Date' and leaves the 'Date' column as it was read
C6_Cleaning ==
    pc = "to_datetime" =>
        LET raw == ReadCsv(file)
        IN  /\ df.columns = raw.columns
            /\ Len(df.rows) = Len(raw.rows)
            /\ \A i \in 1..Len(df.rows) : \A c \in Range(df.columns) :
                IF c = "Date" THEN df.rows[i][c] = raw.rows[i][c]
                ELSE /\ IsFloat(df.rows[i][c])
                     /\ df.rows[i][c] = Cleaned(raw.rows[i][c])
C6_Witness ==
    /\ pc = "to_datetime"
    /\ file.columns = <<"Date", "A">>
    /\ Len(file.rows) = 1
    /\ file.rows[1]["A"] = <<"%", ".", "2">>
    /\ df.rows[1]["A"] = Num(1, 5)
    /\ df.rows[1]["Date"] = Str(PreDate)

\* C7 as claimed: the two samples of the t-test are the values of the country
\* columns in the rows of 2018-2019 and of 2020-2022, with no value of the
\* 'Date' or 'Year' column, wherever the 'Date' column stands
C7_Claimed ==
    samples.set =>
        /\ samples.pre = Flatten(RowsDated({2018, 2019}), Countries(df))
        /\ samples.during = Flatten(RowsDated({2020, 2021, 2022}), Countries(df))

Row(t, country) == t.rows[CHOOSE i \in 1..Len(t.rows) : t.rows[i].country = country]
IsRow(t, country) == \E i \in 1..Len(t.rows) : t.rows[i].country = country
\* no country of the table changed by less (by more) than v
Least(t, v) == \A i \in 1..Len(t.rows) : ~FLess(Pct(t, i), v)
Greatest(t, v) == \A i \in 1..Len(t.rows) : ~FLess(v, Pct(t, i))
Extremes(t, m) ==
    /\ IsRow(t, m.most_impacted_country)
    /\ Row(t, m.most_impacted_country).pct_change_during_covid = m.most_impacted_value
    /\ Least(t, m.most_impacted_value)
    /\ IsRow(t, m.least_impacted_country)
    /\ Row(t, m.least_impacted_country).pct_change_during_covid = m.least_impacted_value
    /\ Greatest(t, m.least_impacted_value)
    /\ FLeq(m.most_impacted_value, m.least_impacted_value)

\* C8 as claimed: the most impacted country is a row of the results table
\* whose change is the least of all and is the reported value, the least
\* impacted country one whose change is the greatest, and the first value is
\* at most the second
C8_Claimed == (Succeeded /\ pc = "viz") => Extremes(ret.results_df, ret.global_metrics)

\* C8 as amended: the same, NaN changes being skipped, when at least one
\* country has a change that is not NaN; when every change is NaN and the
\* analysis still succeeds, no country is named: both countries and both
\* values are NaN
C8_Extremes ==
    (Succeeded /\ pc = "viz") =>
        IF AllNaN(ret.results_df)
        THEN /\ ret.global_metrics.most_impacted_country = NaNLabel
             /\ ret.global_metrics.least_impacted_country = NaNLabel
             /\ IsNaN(ret.global_metrics.most_impacted_value)
             /\ IsNaN(ret.global_metrics.least_impacted_value)
        ELSE /\ Extremes(ret.results_df, ret.global_metrics)
             /\ ~IsNaN(ret.global_metrics.most_impacted_value)
             /\ ~IsNaN(ret.global_metrics.least_impacted_value)
C8_Witness ==
    /\ Succeeded
    /\ pc = "viz"
    /\ Index(ret.results_df.rows) = <<"A", "B">>
    /\ IsNaN(Pct(ret.results_df, 1))
    /\ ret.global_metrics.most_impacted_country = "B"
    /\ ret.global_metrics.most_impacted_value = Num(-100, 1)

\* C9: called with a results table, create_visualizations saves the four
\* files in order, each once; a figure is closed after it is saved and before
\* the next is opened, so at most one is open and none at the end; the
\* confirmation is printed after the four files are saved
C9_Figures ==
    (Succeeded /\ pc # "viz") =>
        /\ open \in {0, 1}
        /\ IsPrefix(saved, FileNames)
        /\ pc = "figure" => open = 0 /\ Len(saved) = fig - 1
        /\ pc \in {"plot", "savefig"} => open = 1 /\ Len(saved) = fig - 1
        /\ pc = "close" => open = 1 /\ Len(saved) = fig
        /\ pc \in {"confirm", "print", "done"} => open = 0 /\ saved = FileNames
        /\ HasLine("Visualizations have been saved") => saved = FileNames /\ open = 0
        /\ pc \in {"print", "done"} => HasLine("Visualizations have been saved")
C9_Witness ==
    /\ Succeeded
    /\ pc = "print"
    /\ saved = FileNames
    /\ HasLine("Visualizations have been saved")

TopFiveTitle == "=== Top 5 Most Negatively Impacted Countries ==="
\* the rows w are the Len(w) lowest changes of the table t in ascending order,
\* NaN last, no country twice
LowestAscending(w, t) ==
    /\ \A i \in 1..Len(w) : IsRow(t, w[i].country) /\ Row(t, w[i].country) = w[i]
    /\ \A i, j \in 1..Len(w) : i < j =>
            /\ w[i].country # w[j].country
            /\ ~FLess(w[j].pct_change_during_covid, w[i].pct_change_during_covid)
            /\ IsNaN(w[i].pct_change_during_covid) => IsNaN(w[j].pct_change_during_covid)
    /\ \A h \in 1..Len(t.rows) :
            (\A i \in 1..Len(w) : w[i].country # t.rows[h].country) =>
                \A i \in 1..Len(w) :
                    /\ ~FLess(Pct(t, h), w[i].pct_change_during_covid)
                    /\ IsNaN(w[i].pct_change_during_covid) => IsNaN(Pct(t, h))
Lists(t) ==
    /\ HasLine(TopFiveTitle)
    /\ Len(Printed(TopFiveTitle)) = Min(5, Len(t.rows))
    /\ Len(charts.worst_10) = Min(10, Len(t.rows))
    /\ IsPrefix(Printed(TopFiveTitle), Index(charts.worst_10))
    /\ LowestAscending(charts.worst_10, t)
    /\ charts.worst_10 = SubSeq(charts.results_sorted.rows, 1, Len(charts.worst_10))
UniqueMinimum(t, m) ==
    /\ ~IsNaN(m.most_impacted_value)
    /\ Cardinality({i \in 1..Len(t.rows) : Pct(t, i) = m.most_impacted_value}) = 1

\* C10 as claimed: the most impacted country of the metrics is the first
\* entry of the printed top 5 and the first bar of the chart of the 10 most
\* impacted, and the top 5 is a prefix of the chart's countries, the min(10, n)
\* lowest changes in ascending order, ties and NaN included
C10_Claimed ==
    (Succeeded /\ pc = "done") =>
        /\ Lists(ret.results_df)
        /\ Printed(TopFiveTitle)[1] = ret.global_metrics.most_impacted_country
        /\ charts.worst_10[1].country = ret.global_metrics.most_impacted_country

\* C10 as amended: the printed top 5 is a prefix of the chart's countries,
\* the min(10, n) lowest changes in ascending order with NaN last, in every
\* case; unless every change is NaN, the first entry of both has the change
\* reported as most_impacted_value; it is most_impacted_country itself when
\* one country alone has that least change (among equal changes the sort may
\* put first another country than idxmin names)
C10_Lists ==
    (Succeeded /\ pc = "done") =>
        /\ Lists(ret.results_df)
        /\ ~AllNaN(ret.results_df) =>
                charts.worst_10[1].pct_change_during_covid
                    = ret.global_metrics.most_impacted_value
        /\ UniqueMinimum(ret.results_df, ret.global_metrics) =>
                /\ Printed(TopFiveTitle)[1] = ret.global_metrics.most_impacted_country
                /\ charts.worst_10[1].country = ret.global_metrics.most_impacted_country
C10_Witness ==
    /\ Succeeded
    /\ pc = "done"
    /\ ~stable
    /\ Len(ret.results_df.rows) = WorstCount + 1
    /\ UniqueMinimum(ret.results_df, ret.global_metrics)
    /\ ret.global_metrics.most_impacted_country = "C"
    /\ Printed(TopFiveTitle)[1] = "C"
    /\ \E i \in 1..Len(ret.results_df.rows) : IsNaN(Pct(ret.results_df, i))

====
